---- MODULE Spec2Model ----
(***************************************************************************)
(* Private state managers of kisexp/xdchain (package core):                *)
(*   DefaultPrivateStateManager   src/core/default_psm.go                  *)
(*   MultiplePrivateStateManager  src/unnamed/part_002                     *)
(* The managers resolve a privacy group (PSI) for a party key or a request *)
(* context and open the private state repository anchored to a block.      *)
(*                                                                         *)
(* Also modelled, each with a specification of its own:                    *)
(*   istanbul.ProposerPolicy and istanbul.Config  src/unnamed/part_000     *)
(*   extension createSub and its goroutine  src/extension/subscriptions.go *)
(*                                                                         *)
(* The specifications share the variables:                                 *)
(*   SpecRegistry  construction of a manager from its two lookup tables    *)
(*                 and the resolution calls on it;                         *)
(*   Spec          a manager over the database: the block pipeline that    *)
(*                 commits per-partition roots and records them under a    *)
(*                 block hash, pruning, and the calls StateRepository and  *)
(*                 CheckAt;                                                *)
(*   SpecCalls     the pipeline and pruning with the resolution, listing   *)
(*                 and health-check calls in between;                      *)
(*   SpecPolicy    goroutines calling RegisterValidatorSet, ClearRegistry  *)
(*                 and Use on one ProposerPolicy;                          *)
(*   SpecConfig    QBFTBlockNumber and IsQBFTConsensusAt on a Config;      *)
(*   SpecWatcher   createSub, its goroutine and the senders on its         *)
(*                 channels; SpecWatcherFair adds the fairness of select.  *)
(* The packages mps, rawdb, state, rpc and core/types are not part of the  *)
(* sources at hand; what the managers need of them is modelled from their  *)
(* use in the two files and from the specification (sections 3 to 5).      *)
(***************************************************************************)
EXTENDS Integers, Sequences, FiniteSets, TLC

VARIABLES
    strategy,            \* "none" before construction, then "Default" or "Multiple"
    residentGroupByKey,  \* MultiplePrivateStateManager.residentGroupByKey
    privacyGroupById,    \* MultiplePrivateStateManager.privacyGroupById
    rootIndex,           \* db: block-anchored root index, key hash -> root hash
    stateNodes,          \* db/cache: state tries, root hash -> state content
    tableNodes,          \* db/cache: tries of private states, root hash -> (PSI -> root)
    pipe,                \* the block-execution pipeline (the one writer)
    lastRecorded,        \* the index entry the pipeline has just written, if any
    ret,                 \* the last call on the manager and what it returned
    policy,              \* istanbul.ProposerPolicy: By, registry, registryMU
    callers,             \* the goroutines calling into the policy: position and locals
    lockOrder,           \* history: the sets registered since the last clear, by lock order
    config,              \* istanbul.Config: the fork block TestQBFTBlock
    answer,              \* the last call on the config and what it returned
    watcher              \* extension: createSub, its goroutine and its channels

vars == <<strategy, residentGroupByKey, privacyGroupById, rootIndex, stateNodes,
          tableNodes, pipe, lastRecorded, ret, policy, callers, lockOrder, config,
          answer, watcher>>

dbVars == <<rootIndex, stateNodes, tableNodes, pipe, lastRecorded>>
registryVars == <<strategy, residentGroupByKey, privacyGroupById>>
managerVars == <<registryVars, dbVars, ret>>
policyVars == <<policy, callers, lockOrder>>
configVars == <<config, answer>>
\* what the private state managers never touch
otherPackages == <<policyVars, configVars, watcher>>

----------------------------------------------------------------------------
(* The objects of packages istanbul and extension as they are constructed.  *)
(* A specification runs the operations of one object and leaves the others  *)
(* as constructed.                                                          *)

\* the goroutines that call into one ProposerPolicy
Threads == {"t1", "t2"}
\* registryMU when no goroutine holds it
NoThread == "unlocked"
\* a goroutine outside any call of the policy
IdleCall == [pc |-> "idle", valSet |-> 0, local |-> <<>>]

\* NewRoundRobinProposerPolicy: the registry is nil, the mutex is new
NewProposerPolicy ==
    [Id |-> "RoundRobin", By |-> "ValidatorSortByString", registry |-> <<>>,
     registryMU |-> NoThread]

PolicyConstructed ==
    /\ policy = NewProposerPolicy
    /\ callers = [t \in Threads |-> IdleCall]
    /\ lockOrder = <<>>

\* DefaultConfig: the fork block is big.NewInt(0)
DefaultConfig == [defined |-> TRUE, TestQBFTBlock |-> 0]
NoAnswer == [op |-> "none", blockNumber |-> 0, flag |-> FALSE, number |-> 0]

ConfigConstructed ==
    /\ config = DefaultConfig
    /\ answer = NoAnswer

\* before createSub is called: no subscription, no goroutine, empty channels
NoWatcher ==
    [pc |-> "none", returned |-> "none", incomingLogs |-> <<>>, errs |-> 0,
     stop |-> FALSE, logsSent |-> 0, errsSent |-> 0, taken |-> <<>>,
     handled |-> <<>>, running |-> 0, unsubscribed |-> 0]

\* the objects the private state managers never touch
OthersConstructed ==
    /\ PolicyConstructed
    /\ ConfigConstructed
    /\ watcher = NoWatcher

----------------------------------------------------------------------------
(* Identifiers, party keys, metadata *)

\* types.DefaultPrivateStateIdentifier, the reserved default identifier
DefaultPrivateStateIdentifier == "private"

\* mps.Resident, the only group kind the two managers name
Resident == "Resident"

\* the identifiers a registry is built from, and one more a context may name
RegistryPSIs == {DefaultPrivateStateIdentifier, "A"}
AllPSIs == RegistryPSIs \cup {"B"}

\* the managed-party keys
PartyKeys == {"alice", "bob"}

\* mps.PrivateStateMetadata: the fields the managers read or set
MetadataPool == [ID : RegistryPSIs, Type : {Resident}, Addresses : SUBSET PartyKeys]

\* the nil *mps.PrivateStateMetadata
NilMetadata == [ID |-> "", Type |-> "", Addresses |-> {}]

\* a map with no entry
EmptyMap == [x \in {} |-> NilMetadata]

\* all maps from a subset of D to R
PartialMaps(D, R) == UNION {[S -> R] : S \in SUBSET D}

\* a context without a PSI, and the contexts that carry one
NoPSI == "<no psi>"
Contexts == {NoPSI} \cup AllPSIs

\* rpc.PrivateStateIdentifierFromContext: the PSI a context carries, and whether it carries one
PrivateStateIdentifierFromContext(ctx) ==
    [psi |-> IF ctx = NoPSI THEN "" ELSE ctx, ok |-> ctx # NoPSI]

\* mps.DefaultPrivateStateMetadata, the synthetic record of the Default strategy
DefaultPrivateStateMetadata ==
    [ID |-> DefaultPrivateStateIdentifier, Type |-> Resident, Addresses |-> {}]

----------------------------------------------------------------------------
(* The value a call returns *)

NoRet ==
    [op |-> "none", key |-> "", ctx |-> "", arg |-> NilMetadata, parties |-> {},
     hash |-> 0, ok |-> FALSE, psm |-> NilMetadata, psis |-> <<>>, flag |-> FALSE,
     root |-> 0, val |-> 0]

\* (metadata, error) of the two resolution calls
Found(m) == [ok |-> TRUE, psm |-> m]
NotFound == [ok |-> FALSE, psm |-> NilMetadata]

----------------------------------------------------------------------------
(* DefaultPrivateStateManager: resolution *)

DefaultResolveForManagedParty(managedParty) == Found(DefaultPrivateStateMetadata)

DefaultResolveForUserContext(ctx) ==
    LET fromCtx == PrivateStateIdentifierFromContext(ctx)
        psi == IF ~fromCtx.ok THEN DefaultPrivateStateIdentifier ELSE fromCtx.psi
    IN  Found([ID |-> psi, Type |-> Resident, Addresses |-> {}])

\* mutant: the identifiers are listed from the registry, which is empty here
DefaultPSIs_FromRegistry == <<>>

DefaultPSIs == <<DefaultPrivateStateIdentifier>>

\* with the default implementation all managed parties are members
DefaultNotIncludeAny(psm, managedParties) == FALSE

----------------------------------------------------------------------------
(* MultiplePrivateStateManager: resolution *)

\* mutant: an unknown key falls back to the default group
MultipleResolveForManagedParty_DefaultsUnknown(managedParty) ==
    IF managedParty \in DOMAIN residentGroupByKey
    THEN Found(residentGroupByKey[managedParty])
    ELSE IF DefaultPrivateStateIdentifier \in DOMAIN privacyGroupById
         THEN Found(privacyGroupById[DefaultPrivateStateIdentifier])
         ELSE NotFound

MultipleResolveForManagedParty(managedParty) ==
    IF managedParty \notin DOMAIN residentGroupByKey
    THEN NotFound
    ELSE Found(residentGroupByKey[managedParty])

\* mutant: the fallback to the default identifier is left out
MultipleResolveForUserContext_NoFallback(ctx) ==
    LET psi == PrivateStateIdentifierFromContext(ctx).psi
    IN  IF psi \notin DOMAIN privacyGroupById
        THEN NotFound
        ELSE Found(privacyGroupById[psi])

\* mutant: a PSI the registry does not know falls back to the default group
MultipleResolveForUserContext_DefaultsUnknown(ctx) ==
    LET fromCtx == PrivateStateIdentifierFromContext(ctx)
        psi == IF ~fromCtx.ok THEN DefaultPrivateStateIdentifier ELSE fromCtx.psi
    IN  IF psi \in DOMAIN privacyGroupById
        THEN Found(privacyGroupById[psi])
        ELSE IF DefaultPrivateStateIdentifier \in DOMAIN privacyGroupById
             THEN Found(privacyGroupById[DefaultPrivateStateIdentifier])
             ELSE NotFound

MultipleResolveForUserContext(ctx) ==
    LET fromCtx == PrivateStateIdentifierFromContext(ctx)
        psi == IF ~fromCtx.ok THEN DefaultPrivateStateIdentifier ELSE fromCtx.psi
    IN  IF psi \notin DOMAIN privacyGroupById
        THEN NotFound
        ELSE Found(privacyGroupById[psi])

\* the sequences that list every element of S exactly once
Orderings(S) ==
    {s \in [1..Cardinality(S) -> S] : \A i, j \in DOMAIN s : s[i] = s[j] => i = j}

\* PSIs ranges over a Go map, whose iteration order is unspecified and varies
\* from one loop to the next: every order is a possible result
MultiplePSIs == Orderings(DOMAIN privacyGroupById)

\* mps.PrivateStateMetadata.NotIncludeAny: true iff none of the parties is a member
MetadataNotIncludeAny(psm, managedParties) ==
    \A p \in managedParties : p \notin psm.Addresses

\* mutant: the Default strategy's answer
MultipleNotIncludeAny_AlwaysFalse(psm, managedParties) == FALSE

MultipleNotIncludeAny(psm, managedParties) ==
    MetadataNotIncludeAny(psm, managedParties)

----------------------------------------------------------------------------
(* Construction *)

\* the lookup tables a caller may hand to newMultiplePrivateStateManager: any
\* keys under any groups that list them, any identifiers under any metadata of
\* that identifier; the two tables need not agree
ResidentGroupByKeyInputs ==
    {m \in PartialMaps(PartyKeys, MetadataPool) : \A k \in DOMAIN m : k \in m[k].Addresses}
PrivacyGroupByIdInputs ==
    {m \in PartialMaps(RegistryPSIs, MetadataPool) : \A i \in DOMAIN m : m[i].ID = i}

\* the database before any block has been processed
EmptyDB ==
    /\ rootIndex = EmptyMap
    /\ stateNodes = EmptyMap
    /\ tableNodes = EmptyMap
    /\ pipe = [phase |-> "idle", height |-> 0, table |-> [p \in AllPSIs |-> 0]]
    /\ lastRecorded = [set |-> FALSE, key |-> 0, table |-> [p \in AllPSIs |-> 0]]

newDefaultPrivateStateManager ==
    /\ strategy = "none"
    /\ strategy' = "Default"
    /\ residentGroupByKey' = EmptyMap
    /\ privacyGroupById' = EmptyMap
    /\ ret' = [NoRet EXCEPT !.op = "new", !.ok = TRUE]
    /\ UNCHANGED dbVars
    /\ UNCHANGED otherPackages

\* returns the manager and a nil error for whatever tables it is given
newMultiplePrivateStateManager(byKey, byId) ==
    /\ strategy = "none"
    /\ strategy' = "Multiple"
    /\ residentGroupByKey' = byKey
    /\ privacyGroupById' = byId
    /\ ret' = [NoRet EXCEPT !.op = "new", !.ok = TRUE]
    /\ UNCHANGED dbVars
    /\ UNCHANGED otherPackages

----------------------------------------------------------------------------
(* Calls on the manager: each dispatches on the strategy fixed at construction *)

ResolveForManagedParty(managedParty) ==
    /\ strategy # "none"
    /\ LET r == IF strategy = "Default"
                THEN DefaultResolveForManagedParty(managedParty)
                ELSE MultipleResolveForManagedParty(managedParty)
       IN  ret' = [NoRet EXCEPT !.op = "ResolveForManagedParty", !.key = managedParty,
                                !.ok = r.ok, !.psm = r.psm]
    /\ UNCHANGED <<registryVars, dbVars>>
    /\ UNCHANGED otherPackages

ResolveForUserContext(ctx) ==
    /\ strategy # "none"
    /\ LET r == IF strategy = "Default"
                THEN DefaultResolveForUserContext(ctx)
                ELSE MultipleResolveForUserContext(ctx)
       IN  ret' = [NoRet EXCEPT !.op = "ResolveForUserContext", !.ctx = ctx,
                                !.ok = r.ok, !.psm = r.psm]
    /\ UNCHANGED <<registryVars, dbVars>>
    /\ UNCHANGED otherPackages

PSIs ==
    /\ strategy # "none"
    /\ \E psis \in (IF strategy = "Default" THEN {DefaultPSIs} ELSE MultiplePSIs) :
           ret' = [NoRet EXCEPT !.op = "PSIs", !.ok = TRUE, !.psis = psis]
    /\ UNCHANGED <<registryVars, dbVars>>
    /\ UNCHANGED otherPackages

NotIncludeAny(psm, managedParties) ==
    /\ strategy # "none"
    /\ LET b == IF strategy = "Default"
                THEN DefaultNotIncludeAny(psm, managedParties)
                ELSE MultipleNotIncludeAny(psm, managedParties)
       IN  ret' = [NoRet EXCEPT !.op = "NotIncludeAny", !.arg = psm,
                                !.parties = managedParties, !.ok = TRUE, !.flag = b]
    /\ UNCHANGED <<registryVars, dbVars>>
    /\ UNCHANGED otherPackages

----------------------------------------------------------------------------
(* SpecRegistry: construction, then resolution calls in any order *)

InitRegistry ==
    /\ strategy = "none"
    /\ residentGroupByKey = EmptyMap
    /\ privacyGroupById = EmptyMap
    /\ EmptyDB
    /\ ret = NoRet
    /\ OthersConstructed

NextRegistry ==
    \/ newDefaultPrivateStateManager
    \/ \E byKey \in ResidentGroupByKeyInputs, byId \in PrivacyGroupByIdInputs :
           newMultiplePrivateStateManager(byKey, byId)
    \/ \E k \in PartyKeys : ResolveForManagedParty(k)
    \/ \E ctx \in Contexts : ResolveForUserContext(ctx)
    \/ PSIs
    \/ \E psm \in MetadataPool, parties \in SUBSET PartyKeys : NotIncludeAny(psm, parties)

SpecRegistry == InitRegistry /\ [][NextRegistry]_vars

----------------------------------------------------------------------------
(* Hashes: block hashes, state roots, roots of tries of private states *)

\* bounds of the database model
MaxBlocks == 2      \* blocks the pipeline processes after genesis
MaxVal == 1         \* distinct non-empty contents of a partition's state

\* common.Hash{}: what the index lookup yields for a key without an entry
ZeroHash == 0
\* the root of a trie without nodes
EmptyRoot == 1

\* a partition's state is summarised by its content, 0 for the empty state
Contents == 0..MaxVal
\* the content hash of a state trie
StateHash(v) == IF v = 0 THEN EmptyRoot ELSE EmptyRoot + v
StateRoots == {StateHash(v) : v \in Contents}

\* a table of per-partition roots; ZeroHash where a partition has no entry
NoTable == [p \in AllPSIs |-> ZeroHash]
Radix == MaxVal + 2
TableBase == 100
\* the content hash of a trie of private states holding table t
TableHash(t) ==
    IF t = NoTable THEN EmptyRoot
    ELSE TableBase + t[DefaultPrivateStateIdentifier] + Radix * t["A"]
                   + Radix * Radix * t["B"]

\* the hash of the block at height n; height 0 is genesis
BlockBase == 1000
BlockHash(n) == BlockBase + n
BlockKeys == {BlockHash(n) : n \in 0..MaxBlocks}

----------------------------------------------------------------------------
(* rawdb and state: the index lookup and opening a trie *)

\* rawdb.GetPrivateStateRoot: a single hash, the zero hash without an entry
GetPrivateStateRoot(key) ==
    IF key \in DOMAIN rootIndex THEN rootIndex[key] ELSE ZeroHash

\* rawdb.GetPrivateStatesTrieRoot: likewise for the Multiple strategy's index
GetPrivateStatesTrieRoot(key) ==
    IF key \in DOMAIN rootIndex THEN rootIndex[key] ELSE ZeroHash

\* state.New / OpenTrie: a trie opens when its root needs no node (the zero
\* hash and the empty root) or its root node is in the database; otherwise
\* the state is missing
CanOpen(root) ==
    \/ root \in {ZeroHash, EmptyRoot}
    \/ root \in DOMAIN stateNodes
    \/ root \in DOMAIN tableNodes

\* the table held by the trie of private states at root
TableAt(root) == IF root \in DOMAIN tableNodes THEN tableNodes[root] ELSE NoTable

\* the content of the state trie at root
ContentAt(root) == IF root \in DOMAIN stateNodes THEN stateNodes[root] ELSE 0

\* (repository, error); the repository is named by the root it was opened at
Repo(root) == [ok |-> TRUE, root |-> root]
NoRepo == [ok |-> FALSE, root |-> ZeroHash]

\* mps.NewDefaultPrivateStateRepository(db, cache, blockHash)
NewDefaultPrivateStateRepository(blockHash) ==
    LET root == GetPrivateStateRoot(blockHash)
    IN  IF CanOpen(root) THEN Repo(root) ELSE NoRepo

\* mps.NewMultiplePrivateStateRepository(db, cache, privateStatesTrieRoot)
NewMultiplePrivateStateRepository(privateStatesTrieRoot) ==
    IF CanOpen(privateStatesTrieRoot) THEN Repo(privateStatesTrieRoot) ELSE NoRepo

----------------------------------------------------------------------------
(* The managers over the database *)

\* mutant: the index is read under the zero hash, not under the block hash
DefaultStateRepository_WrongKey(blockHash) == NewDefaultPrivateStateRepository(ZeroHash)

DefaultStateRepository(blockHash) == NewDefaultPrivateStateRepository(blockHash)

\* the height of the last block recorded, 0 when only genesis exists
HeadHeight == Cardinality(DOMAIN rootIndex)

\* mutant: the repository of the chain head, whatever block was asked for
MultipleStateRepository_Head(blockHash) ==
    NewMultiplePrivateStateRepository(GetPrivateStatesTrieRoot(BlockHash(HeadHeight)))

MultipleStateRepository(blockHash) ==
    LET privateStatesTrieRoot == GetPrivateStatesTrieRoot(blockHash)
    IN  NewMultiplePrivateStateRepository(privateStatesTrieRoot)

StateRepositoryOf(blockHash) ==
    IF strategy = "Default" THEN DefaultStateRepository(blockHash)
    ELSE MultipleStateRepository(blockHash)

DefaultCheckAt(root) == CanOpen(GetPrivateStateRoot(root))

MultipleCheckAt(root) == CanOpen(GetPrivateStatesTrieRoot(root))

\* the partitions the manager serves
ManagedPSIs ==
    IF strategy = "Default" THEN {DefaultPrivateStateIdentifier}
    ELSE DOMAIN privacyGroupById

\* PrivateStateRepository.StatePSI: the state of one partition, opened at the
\* root the repository holds for it
StatePSI(repo, psi) ==
    LET root == IF strategy = "Default" THEN repo.root ELSE TableAt(repo.root)[psi]
    IN  IF repo.ok /\ psi \in ManagedPSIs /\ CanOpen(root)
        THEN [ok |-> TRUE, root |-> root, val |-> ContentAt(root)]
        ELSE [ok |-> FALSE, root |-> ZeroHash, val |-> 0]

\* what a reader gets for partition psi at the block with hash blockHash
ReadAt(blockHash, psi) == StatePSI(StateRepositoryOf(blockHash), psi)

----------------------------------------------------------------------------
(* The block pipeline and pruning *)

\* the table of the repository the pipeline executes on
RepoTable(repo) ==
    IF strategy = "Default"
    THEN [NoTable EXCEPT ![DefaultPrivateStateIdentifier] = repo.root]
    ELSE TableAt(repo.root)

\* the pipeline opens the repository of the chain head to execute the next block
BeginBlock ==
    /\ pipe.phase = "idle"
    /\ HeadHeight < MaxBlocks
    /\ LET repo == StateRepositoryOf(BlockHash(HeadHeight))
       IN  /\ repo.ok
           /\ pipe' = [phase |-> "exec", height |-> HeadHeight + 1, table |-> RepoTable(repo)]
    /\ ret' = NoRet
    /\ UNCHANGED <<registryVars, rootIndex, stateNodes, tableNodes, lastRecorded>>
    /\ UNCHANGED otherPackages

\* execution leaves partition psi with content v and commits its trie: the
\* nodes of the new root are added, no node of another root is touched
CommitState(psi, v) ==
    /\ pipe.phase = "exec"
    /\ psi \in ManagedPSIs
    /\ LET root == StateHash(v)
       IN  /\ stateNodes' = IF root = EmptyRoot THEN stateNodes
                            ELSE [r \in DOMAIN stateNodes \cup {root} |->
                                     IF r = root THEN v ELSE stateNodes[r]]
           /\ pipe' = [pipe EXCEPT !.table[psi] = root]
    /\ ret' = NoRet
    /\ UNCHANGED <<registryVars, rootIndex, tableNodes, lastRecorded>>
    /\ UNCHANGED otherPackages

\* the roots of the executed block are recorded under its hash, in one write,
\* when all of them are known
RecordRoots ==
    /\ pipe.phase = "exec"
    /\ LET key == BlockHash(pipe.height)
           root == IF strategy = "Default" THEN pipe.table[DefaultPrivateStateIdentifier]
                   ELSE TableHash(pipe.table)
       IN  /\ tableNodes' = IF strategy = "Default" \/ root = EmptyRoot THEN tableNodes
                            ELSE [r \in DOMAIN tableNodes \cup {root} |->
                                     IF r = root THEN pipe.table ELSE tableNodes[r]]
           /\ rootIndex' = [k \in DOMAIN rootIndex \cup {key} |->
                               IF k = key THEN root ELSE rootIndex[k]]
           /\ lastRecorded' = [set |-> TRUE, key |-> key, table |-> pipe.table]
    /\ pipe' = [phase |-> "idle", height |-> 0, table |-> NoTable]
    /\ ret' = NoRet
    /\ UNCHANGED <<registryVars, stateNodes>>
    /\ UNCHANGED otherPackages

\* the roots the index holds
RecordedRoots == {rootIndex[k] : k \in DOMAIN rootIndex}

\* the roots the chain head and the running pipeline refer to
LiveRoots ==
    LET headRoot == GetPrivateStateRoot(BlockHash(HeadHeight))
    IN  {headRoot} \cup {TableAt(headRoot)[p] : p \in AllPSIs}
                   \cup {pipe.table[p] : p \in AllPSIs}

\* a pruning pass drops the nodes of every root that neither the head nor the
\* pipeline refers to any more (the superseded roots)
Prune ==
    /\ (DOMAIN stateNodes \cup DOMAIN tableNodes) \ LiveRoots # {}
    /\ stateNodes' = [r \in DOMAIN stateNodes \cap LiveRoots |-> stateNodes[r]]
    /\ tableNodes' = [r \in DOMAIN tableNodes \cap LiveRoots |-> tableNodes[r]]
    /\ ret' = NoRet
    /\ UNCHANGED <<registryVars, rootIndex, pipe, lastRecorded>>
    /\ UNCHANGED otherPackages

----------------------------------------------------------------------------
(* Calls of readers on the manager *)

StateRepository(blockHash) ==
    /\ LET repo == StateRepositoryOf(blockHash)
       IN  ret' = [NoRet EXCEPT !.op = "StateRepository", !.hash = blockHash,
                                !.ok = repo.ok, !.root = repo.root]
    /\ UNCHANGED <<registryVars, dbVars>>
    /\ UNCHANGED otherPackages

\* mutant: a check that fails repairs the index by dropping the entry
CheckAt_DropsEntry(root) ==
    /\ LET ok == IF strategy = "Default" THEN DefaultCheckAt(root)
                 ELSE MultipleCheckAt(root)
       IN  /\ ret' = [NoRet EXCEPT !.op = "CheckAt", !.hash = root, !.ok = ok]
           /\ rootIndex' = IF ok THEN rootIndex
                           ELSE [k \in DOMAIN rootIndex \ {root} |-> rootIndex[k]]
    /\ UNCHANGED <<registryVars, stateNodes, tableNodes, pipe, lastRecorded>>
    /\ UNCHANGED otherPackages

CheckAt(root) ==
    /\ LET ok == IF strategy = "Default" THEN DefaultCheckAt(root)
                 ELSE MultipleCheckAt(root)
       IN  ret' = [NoRet EXCEPT !.op = "CheckAt", !.hash = root, !.ok = ok]
    /\ UNCHANGED <<registryVars, dbVars>>
    /\ UNCHANGED otherPackages

\* TrieDB hands out the trie database of the state cache the manager holds
TrieDB ==
    /\ strategy # "none"
    /\ ret' = [NoRet EXCEPT !.op = "TrieDB", !.ok = TRUE]
    /\ UNCHANGED <<registryVars, dbVars>>
    /\ UNCHANGED otherPackages

----------------------------------------------------------------------------
(* Spec: a constructed manager, the block pipeline, pruning and readers *)

\* the registry of the two-partition scenario: A for alice, B for bob
ScenarioGroups ==
    [p \in {"A", "B"} |->
        [ID |-> p, Type |-> Resident,
         Addresses |-> IF p = "A" THEN {"alice"} ELSE {"bob"}]]
ScenarioKeys ==
    [k \in PartyKeys |-> IF k = "alice" THEN ScenarioGroups["A"] ELSE ScenarioGroups["B"]]

Init ==
    /\ \/ /\ strategy = "Default"
          /\ residentGroupByKey = EmptyMap
          /\ privacyGroupById = EmptyMap
       \/ /\ strategy = "Multiple"
          /\ residentGroupByKey = ScenarioKeys
          /\ privacyGroupById = ScenarioGroups
    /\ EmptyDB
    /\ ret = NoRet
    /\ OthersConstructed

Next ==
    \/ BeginBlock
    \/ \E psi \in ManagedPSIs, v \in Contents : CommitState(psi, v)
    \/ RecordRoots
    \/ Prune
    \/ \E h \in BlockKeys : StateRepository(h)
    \/ \E root \in BlockKeys \cup StateRoots \cup RecordedRoots : CheckAt(root)

Spec == Init /\ [][Next]_vars

----------------------------------------------------------------------------
(* SpecCalls: the block pipeline and pruning, with the resolution and        *)
(* health-check calls of the manager made in between                        *)

\* the metadata the callers of NotIncludeAny hold: what the manager resolved
ResolvedMetadata ==
    IF strategy = "Default" THEN {DefaultPrivateStateMetadata}
    ELSE {privacyGroupById[i] : i \in DOMAIN privacyGroupById}

NextCalls ==
    \/ BeginBlock
    \/ \E psi \in ManagedPSIs, v \in Contents : CommitState(psi, v)
    \/ RecordRoots
    \/ Prune
    \/ \E k \in PartyKeys : ResolveForManagedParty(k)
    \/ \E ctx \in Contexts : ResolveForUserContext(ctx)
    \/ PSIs
    \/ \E psm \in ResolvedMetadata, k \in PartyKeys : NotIncludeAny(psm, {k})
    \/ \E root \in BlockKeys : CheckAt(root)
    \/ TrieDB

SpecCalls == Init /\ [][NextCalls]_vars

----------------------------------------------------------------------------
(* istanbul.ProposerPolicy (src/unnamed/part_000): goroutines call          *)
(* RegisterValidatorSet, ClearRegistry and Use on one policy. Each statement *)
(* that reads or writes a field of the policy is a step of its own.         *)

MaxSets == 2
ValidatorSets == 1..MaxSets
SortByFuncs == {"ValidatorSortByString", "ValidatorSortByByte"}

\* the validator sets some caller or the registry holds at the moment
SetsInUse ==
    {policy.registry[i] : i \in DOMAIN policy.registry}
        \cup {lockOrder[i] : i \in DOMAIN lockOrder}
        \cup {callers[t].valSet : t \in Threads}

\* mutant: Lock does not wait for the holder
MutexFree_NotChecked == TRUE

\* registryMU.Lock() returns only when no goroutine holds the mutex
MutexFree == policy.registryMU = NoThread

\* a goroutine enters RegisterValidatorSet(valSet) and waits for the mutex
RegisterValidatorSet(t, valSet) ==
    /\ callers[t].pc = "idle"
    /\ valSet \notin SetsInUse
    /\ callers' = [callers EXCEPT ![t] = [pc |-> "reg_lock", valSet |-> valSet,
                                          local |-> <<>>]]
    /\ UNCHANGED <<policy, lockOrder>>
    /\ UNCHANGED <<managerVars, configVars, watcher>>

RegisterValidatorSet_Lock(t) ==
    /\ callers[t].pc = "reg_lock"
    /\ MutexFree
    /\ policy' = [policy EXCEPT !.registryMU = t]
    /\ callers' = [callers EXCEPT ![t].pc = "reg_read"]
    /\ lockOrder' = Append(lockOrder, callers[t].valSet)
    /\ UNCHANGED <<managerVars, configVars, watcher>>

\* len(p.registry) and the operand of append: the registry is read
RegisterValidatorSet_Read(t) ==
    /\ callers[t].pc = "reg_read"
    /\ callers' = [callers EXCEPT ![t].pc = "reg_write", ![t].local = policy.registry]
    /\ UNCHANGED <<policy, lockOrder>>
    /\ UNCHANGED <<managerVars, configVars, watcher>>

\* what the assignment to p.registry stores
RegisterValue(t) ==
    IF Len(callers[t].local) = 0 THEN <<callers[t].valSet>>
    ELSE Append(callers[t].local, callers[t].valSet)

RegisterValidatorSet_Write(t) ==
    /\ callers[t].pc = "reg_write"
    /\ policy' = [policy EXCEPT !.registry = RegisterValue(t)]
    /\ callers' = [callers EXCEPT ![t].pc = "reg_unlock"]
    /\ UNCHANGED lockOrder
    /\ UNCHANGED <<managerVars, configVars, watcher>>

\* the deferred Unlock, and the return
RegisterValidatorSet_Unlock(t) ==
    /\ callers[t].pc = "reg_unlock"
    /\ policy' = [policy EXCEPT !.registryMU = NoThread]
    /\ callers' = [callers EXCEPT ![t] = IdleCall]
    /\ UNCHANGED lockOrder
    /\ UNCHANGED <<managerVars, configVars, watcher>>

ClearRegistry_Lock(t) ==
    /\ callers[t].pc = "idle"
    /\ MutexFree
    /\ policy' = [policy EXCEPT !.registryMU = t]
    /\ callers' = [callers EXCEPT ![t].pc = "clear_write"]
    /\ lockOrder' = <<>>
    /\ UNCHANGED <<managerVars, configVars, watcher>>

ClearRegistry_Write(t) ==
    /\ callers[t].pc = "clear_write"
    /\ policy' = [policy EXCEPT !.registry = <<>>]
    /\ callers' = [callers EXCEPT ![t].pc = "clear_unlock"]
    /\ UNCHANGED lockOrder
    /\ UNCHANGED <<managerVars, configVars, watcher>>

ClearRegistry_Unlock(t) ==
    /\ callers[t].pc = "clear_unlock"
    /\ policy' = [policy EXCEPT !.registryMU = NoThread]
    /\ callers' = [callers EXCEPT ![t] = IdleCall]
    /\ UNCHANGED lockOrder
    /\ UNCHANGED <<managerVars, configVars, watcher>>

\* Use(v) takes no lock: first p.By = v
Use_SetBy(t, v) ==
    /\ callers[t].pc = "idle"
    /\ policy' = [policy EXCEPT !.By = v]
    /\ callers' = [callers EXCEPT ![t].pc = "use_range"]
    /\ UNCHANGED lockOrder
    /\ UNCHANGED <<managerVars, configVars, watcher>>

\* what an unsynchronised read of p.registry can yield: the registry as it is
\* or, when a writer is at its assignment, as that assignment leaves it
RacyReads ==
    {policy.registry}
        \cup {RegisterValue(u) : u \in {w \in Threads : callers[w].pc = "reg_write"}}
        \cup {<<>> : u \in {w \in Threads : callers[w].pc = "clear_write"}}

\* range p.registry evaluates the slice once, without the mutex
Use_Range(t) ==
    /\ callers[t].pc = "use_range"
    /\ \E seen \in RacyReads :
           callers' = [callers EXCEPT ![t].pc = "use_sort", ![t].local = seen]
    /\ UNCHANGED <<policy, lockOrder>>
    /\ UNCHANGED <<managerVars, configVars, watcher>>

\* the loop body: SortValidators on every set of the slice, then the return
Use_SortValidators(t) ==
    /\ callers[t].pc = "use_sort"
    /\ callers' = [callers EXCEPT ![t] = IdleCall]
    /\ UNCHANGED <<policy, lockOrder>>
    /\ UNCHANGED <<managerVars, configVars, watcher>>

\* the private state manager before construction, over an empty database
ManagerAtRest ==
    /\ strategy = "none"
    /\ residentGroupByKey = EmptyMap
    /\ privacyGroupById = EmptyMap
    /\ EmptyDB
    /\ ret = NoRet

InitPolicy ==
    /\ PolicyConstructed
    /\ ManagerAtRest
    /\ ConfigConstructed
    /\ watcher = NoWatcher

NextPolicy ==
    \E t \in Threads :
        \/ \E valSet \in ValidatorSets : RegisterValidatorSet(t, valSet)
        \/ RegisterValidatorSet_Lock(t)
        \/ RegisterValidatorSet_Read(t)
        \/ RegisterValidatorSet_Write(t)
        \/ RegisterValidatorSet_Unlock(t)
        \/ ClearRegistry_Lock(t)
        \/ ClearRegistry_Write(t)
        \/ ClearRegistry_Unlock(t)
        \/ \E v \in SortByFuncs : Use_SetBy(t, v)
        \/ Use_Range(t)
        \/ Use_SortValidators(t)

SpecPolicy == InitPolicy /\ [][NextPolicy]_vars

----------------------------------------------------------------------------
(* istanbul.Config (src/unnamed/part_000): the QBFT fork block.             *)
(* TestQBFTBlock and block numbers are big integers; Uint64 and Int64 keep   *)
(* the low word of the magnitude. The word is WordBits wide here, in place   *)
(* of 64, and the values range past one word.                                *)

WordBits == 3
Word == 2 ^ WordBits

\* the fork blocks a configuration file can set, and the block numbers asked
ForkBlocks == (-1)..(Word + 1)
BlockNumbers == 0..(Word + 1)

Abs(x) == IF x < 0 THEN -x ELSE x

\* big.Int.Uint64: the low word of |x|
BigUint64(x) == Abs(x) % Word

\* big.Int.Int64: the low word of |x| as a signed word, negated when x < 0
BigInt64(x) ==
    LET low == Abs(x) % Word
        v == IF low >= Word \div 2 THEN low - Word ELSE low
        neg == IF v = -(Word \div 2) THEN v ELSE -v
    IN  IF x < 0 THEN neg ELSE v

\* big.Int.Cmp: -1, 0 or +1
BigCmp(x, y) == IF x < y THEN -1 ELSE IF x = y THEN 0 ELSE 1

Configs ==
    {[defined |-> FALSE, TestQBFTBlock |-> 0]}
        \cup [defined : {TRUE}, TestQBFTBlock : ForkBlocks]

QBFTBlockNumber ==
    /\ answer' = [NoAnswer EXCEPT
                     !.op = "QBFTBlockNumber",
                     !.number = IF ~config.defined THEN -1
                                ELSE BigInt64(config.TestQBFTBlock)]
    /\ UNCHANGED config
    /\ UNCHANGED <<managerVars, policyVars, watcher>>

IsQBFTConsensusAt(blockNumber) ==
    /\ answer' = [NoAnswer EXCEPT
                     !.op = "IsQBFTConsensusAt",
                     !.blockNumber = blockNumber,
                     !.flag = IF ~config.defined THEN FALSE
                              ELSE IF BigUint64(config.TestQBFTBlock) = 0 THEN TRUE
                              ELSE IF BigCmp(blockNumber, config.TestQBFTBlock) >= 0 THEN TRUE
                              ELSE FALSE]
    /\ UNCHANGED config
    /\ UNCHANGED <<managerVars, policyVars, watcher>>

InitConfig ==
    /\ config \in Configs
    /\ answer = NoAnswer
    /\ ManagerAtRest
    /\ PolicyConstructed
    /\ watcher = NoWatcher

NextConfig ==
    \/ QBFTBlockNumber
    \/ \E blockNumber \in BlockNumbers : IsQBFTConsensusAt(blockNumber)

SpecConfig == InitConfig /\ [][NextConfig]_vars

----------------------------------------------------------------------------
(* extension: createSub (src/extension/subscriptions.go) and the goroutine   *)
(* it starts. The client that feeds incomingLogs and subscription.Err(), and *)
(* the service that sends the stop event, are not in the sources; they are   *)
(* modelled as senders on the three channels the goroutine selects on.       *)

MaxLogs == 2
MaxErrs == 2

\* what the select took, in order: a log is its number (1, 2, ...)
ErrTaken == 0
StopTaken == -1

\* SubscribeToLogs fails: createSub returns the error and starts nothing;
\* otherwise it starts the goroutine and returns nil
createSub(subscribed) ==
    /\ watcher.pc = "none"
    /\ watcher' = IF subscribed
                  THEN [watcher EXCEPT !.pc = "go", !.returned = "nil"]
                  ELSE [watcher EXCEPT !.pc = "failed", !.returned = "err"]
    /\ UNCHANGED <<managerVars, policyVars, configVars>>

\* the goroutine subscribes to the stop event and defers the unsubscription
subscribeStopEvent ==
    /\ watcher.pc = "go"
    /\ watcher' = [watcher EXCEPT !.pc = "select"]
    /\ UNCHANGED <<managerVars, policyVars, configVars>>

\* the client delivers the next log of the subscription
SendLog ==
    /\ watcher.pc \in {"go", "select", "callback", "returned"}
    /\ watcher.logsSent < MaxLogs
    /\ watcher' = [watcher EXCEPT
                      !.incomingLogs = Append(@, watcher.logsSent + 1),
                      !.logsSent = @ + 1]
    /\ UNCHANGED <<managerVars, policyVars, configVars>>

\* the subscription reports an error
SendErr ==
    /\ watcher.pc \in {"go", "select", "callback", "returned"}
    /\ watcher.errsSent < MaxErrs
    /\ watcher' = [watcher EXCEPT !.errs = @ + 1, !.errsSent = @ + 1]
    /\ UNCHANGED <<managerVars, policyVars, configVars>>

\* the service sends the stop event to its subscribers
SendStop ==
    /\ watcher.pc \in {"select", "callback"}
    /\ ~watcher.stop
    /\ watcher' = [watcher EXCEPT !.stop = TRUE]
    /\ UNCHANGED <<managerVars, policyVars, configVars>>

\* mutant: the error case leaves the loop
Select_Err_Returns ==
    /\ watcher.pc = "select"
    /\ watcher.errs > 0
    /\ watcher' = [watcher EXCEPT !.errs = @ - 1, !.taken = Append(@, ErrTaken),
                                  !.pc = "returned", !.unsubscribed = @ + 1]
    /\ UNCHANGED <<managerVars, policyVars, configVars>>

\* case err := <-subscription.Err(): the error is logged; break leaves the
\* select statement, and the loop goes on
Select_Err ==
    /\ watcher.pc = "select"
    /\ watcher.errs > 0
    /\ watcher' = [watcher EXCEPT !.errs = @ - 1, !.taken = Append(@, ErrTaken)]
    /\ UNCHANGED <<managerVars, policyVars, configVars>>

\* mutant: the log is taken and the callback is not called
Select_Log_NoCallback ==
    /\ watcher.pc = "select"
    /\ watcher.incomingLogs # <<>>
    /\ watcher' = [watcher EXCEPT !.incomingLogs = Tail(@),
                                  !.taken = Append(@, Head(watcher.incomingLogs))]
    /\ UNCHANGED <<managerVars, policyVars, configVars>>

\* case foundLog := <-incomingLogs: logHandlerCb(foundLog) is called
Select_Log ==
    /\ watcher.pc = "select"
    /\ watcher.incomingLogs # <<>>
    /\ watcher' = [watcher EXCEPT !.incomingLogs = Tail(@),
                                  !.taken = Append(@, Head(watcher.incomingLogs)),
                                  !.handled = Append(@, Head(watcher.incomingLogs)),
                                  !.running = @ + 1,
                                  !.pc = "callback"]
    /\ UNCHANGED <<managerVars, policyVars, configVars>>

\* logHandlerCb returns and the loop selects again
logHandlerCb_Return ==
    /\ watcher.pc = "callback"
    /\ watcher' = [watcher EXCEPT !.running = @ - 1, !.pc = "select"]
    /\ UNCHANGED <<managerVars, policyVars, configVars>>

\* case <-stopChan: return, which runs the deferred Unsubscribe
Select_Stop ==
    /\ watcher.pc = "select"
    /\ watcher.stop
    /\ watcher' = [watcher EXCEPT !.stop = FALSE, !.taken = Append(@, StopTaken),
                                  !.pc = "returned", !.unsubscribed = @ + 1]
    /\ UNCHANGED <<managerVars, policyVars, configVars>>

InitWatcher ==
    /\ watcher = NoWatcher
    /\ ManagerAtRest
    /\ PolicyConstructed
    /\ ConfigConstructed

NextWatcher ==
    \/ \E subscribed \in BOOLEAN : createSub(subscribed)
    \/ subscribeStopEvent
    \/ SendLog
    \/ SendErr
    \/ SendStop
    \/ Select_Err
    \/ Select_Log
    \/ logHandlerCb_Return
    \/ Select_Stop

SpecWatcher == InitWatcher /\ [][NextWatcher]_vars

\* the select statement chooses among its ready cases at random, so a case
\* that is ready again and again is taken
SpecWatcherFair ==
    /\ InitWatcher
    /\ [][NextWatcher]_vars
    /\ SF_vars(Select_Stop)
    /\ SF_vars(Select_Err)
    /\ SF_vars(Select_Log)
    /\ WF_vars(subscribeStopEvent)

----------------------------------------------------------------------------
(* Claims about resolution, checked under SpecRegistry *)

IsCall(op) == strategy # "none" /\ ret.op = op

\* C4 (as stated): in the Multiple strategy a context without a PSI always
\* resolves to the metadata registered under the default identifier, never to
\* an error, whatever registry the manager was constructed with.
C4_NoPSIAlwaysResolves ==
    (strategy = "Multiple" /\ IsCall("ResolveForUserContext") /\ ret.ctx = NoPSI)
        => /\ ret.ok
           /\ DefaultPrivateStateIdentifier \in DOMAIN privacyGroupById
           /\ ret.psm = privacyGroupById[DefaultPrivateStateIdentifier]

\* C4 (amended): in the Multiple strategy a context without a PSI resolves to
\* the metadata registered under the default identifier when the registry has
\* an entry for it, and to an error and no metadata when it has none.
C4_NoPSIResolvesRegisteredDefault ==
    (strategy = "Multiple" /\ IsCall("ResolveForUserContext") /\ ret.ctx = NoPSI)
        => IF DefaultPrivateStateIdentifier \in DOMAIN privacyGroupById
           THEN ret.ok /\ ret.psm = privacyGroupById[DefaultPrivateStateIdentifier]
           ELSE ~ret.ok /\ ret.psm = NilMetadata

C4_Witness ==
    /\ strategy = "Multiple" /\ IsCall("ResolveForUserContext") /\ ret.ctx = NoPSI
    /\ DOMAIN privacyGroupById = RegistryPSIs
    /\ ret.ok /\ ret.psm.ID = DefaultPrivateStateIdentifier

\* C11: in the Multiple strategy ResolveForUserContext with a context that
\* carries a PSI returns exactly the metadata registered under that PSI when
\* the registry has it, and an error and no metadata when it has not; a PSI
\* that is present but unknown never resolves to the default group.
C11_ExplicitPSILookup ==
    (strategy = "Multiple" /\ IsCall("ResolveForUserContext") /\ ret.ctx # NoPSI)
        => IF ret.ctx \in DOMAIN privacyGroupById
           THEN ret.ok /\ ret.psm = privacyGroupById[ret.ctx]
           ELSE ~ret.ok /\ ret.psm = NilMetadata

\* an unknown PSI was refused although the default group is registered
C11_Witness ==
    /\ strategy = "Multiple" /\ IsCall("ResolveForUserContext")
    /\ ret.ctx # NoPSI /\ ret.ctx \notin DOMAIN privacyGroupById
    /\ DefaultPrivateStateIdentifier \in DOMAIN privacyGroupById
    /\ ~ret.ok

\* C5: in the Default strategy ResolveForManagedParty and ResolveForUserContext
\* succeed for every key and every context and return the same single record,
\* whose identifier is the default identifier.
C5_DefaultSingleRecord ==
    (strategy = "Default" /\ ret.op \in {"ResolveForManagedParty", "ResolveForUserContext"})
        => ret.ok /\ ret.psm = DefaultPrivateStateMetadata

\* C7: in the Multiple strategy two calls of PSIs on the same manager return
\* the same sequence (a deterministic enumeration in registration order).
C7_PSIsDeterministic ==
    [][(strategy = "Multiple" /\ ret.op = "PSIs" /\ ret'.op = "PSIs")
           => ret'.psis = ret.psis]_vars

\* C8 (as stated): under both strategies NotIncludeAny(metadata, p) is false
\* if and only if p is one of metadata's managed parties.
C8_FalseIffMember ==
    (IsCall("NotIncludeAny") /\ Cardinality(ret.parties) = 1)
        => (ret.flag = FALSE <=> ret.parties \subseteq ret.arg.Addresses)

\* C8 (amended): in the Multiple strategy NotIncludeAny(metadata, p) is false
\* if and only if p is one of metadata's managed parties; in the Default
\* strategy it is false for every metadata and every p.
C8_FalseIffMemberInMultiple ==
    (IsCall("NotIncludeAny") /\ Cardinality(ret.parties) = 1)
        => IF strategy = "Multiple"
           THEN ret.flag = FALSE <=> ret.parties \subseteq ret.arg.Addresses
           ELSE ret.flag = FALSE

C8_Witness ==
    /\ strategy = "Multiple" /\ IsCall("NotIncludeAny")
    /\ ret.parties = {"bob"} /\ ret.arg.Addresses = {"alice"}
    /\ ret.flag = TRUE

\* a registry as the specification wants it: no Resident group without managed
\* parties, and no two different descriptors under one identifier
Descriptors ==
    {residentGroupByKey[k] : k \in DOMAIN residentGroupByKey}
        \cup {privacyGroupById[i] : i \in DOMAIN privacyGroupById}
ValidRegistry ==
    /\ \A m \in Descriptors : m.Type = Resident => m.Addresses # {}
    /\ \A m, n \in Descriptors : m.ID = n.ID => m = n

\* C9: a Multiple-strategy manager is only ever obtained from a valid registry
\* (construction fails on a shared identifier or an empty Resident group).
C9_InvalidRegistryRejected == strategy = "Multiple" => ValidRegistry

\* C10: in the Multiple strategy ResolveForManagedParty(k) returns the metadata
\* k is registered under for every configured key, and an error and no
\* metadata (never the default or another group) for every other key.
C10_ManagedPartyLookup ==
    (strategy = "Multiple" /\ IsCall("ResolveForManagedParty"))
        => IF ret.key \in DOMAIN residentGroupByKey
           THEN ret.ok /\ ret.psm = residentGroupByKey[ret.key]
           ELSE ~ret.ok /\ ret.psm = NilMetadata

C10_Witness ==
    /\ strategy = "Multiple" /\ IsCall("ResolveForManagedParty")
    /\ ret.key \notin DOMAIN residentGroupByKey
    /\ DOMAIN residentGroupByKey # {}
    /\ DefaultPrivateStateIdentifier \in DOMAIN privacyGroupById
    /\ ~ret.ok

\* C16: the two lookup tables of a Multiple-strategy manager agree: whenever
\* ResolveForManagedParty(k) succeeds with metadata m, every listing PSIs()
\* returns holds m.ID, and ResolveForUserContext with the PSI m.ID returns m.
C16_TablesAgree ==
    strategy = "Multiple" =>
        \A k \in PartyKeys :
            LET r == MultipleResolveForManagedParty(k)
            IN  r.ok =>
                    /\ \A psis \in MultiplePSIs : \E i \in DOMAIN psis : psis[i] = r.psm.ID
                    /\ MultipleResolveForUserContext(r.psm.ID) = Found(r.psm)

----------------------------------------------------------------------------
(* Claims about the root index and the tries, checked under Spec *)

\* C1: under both strategies StateRepository(h) returns an error and no
\* repository for every block hash h that has no entry in the root index.
C1_UnknownBlockFails ==
    (IsCall("StateRepository") /\ ret.hash \notin DOMAIN rootIndex) => ~ret.ok

\* the repository a StateRepository call returned
ReturnedRepo == [ok |-> ret.ok, root |-> ret.root]

\* C2: once the pipeline has recorded the roots of block h, the next
\* StateRepository(h) succeeds and the repository it yields for each partition
\* is rooted at exactly the root recorded for that partition.
C2_RoundTrip ==
    (IsCall("StateRepository") /\ lastRecorded.set /\ ret.hash = lastRecorded.key)
        => /\ ret.ok
           /\ \A psi \in ManagedPSIs :
                  /\ StatePSI(ReturnedRepo, psi).ok
                  /\ StatePSI(ReturnedRepo, psi).root = lastRecorded.table[psi]

C2_Witness ==
    /\ strategy = "Multiple"
    /\ IsCall("StateRepository") /\ lastRecorded.set /\ ret.hash = lastRecorded.key
    /\ ret.hash = BlockHash(2)
    /\ StatePSI(ReturnedRepo, "A").root = StateHash(1)
    /\ StatePSI(ReturnedRepo, "B").root = EmptyRoot
    /\ ReadAt(BlockHash(1), "A").root = EmptyRoot
    /\ ReadAt(BlockHash(1), "B").root = StateHash(1)

\* a step that prunes
PruneStep ==
    \/ ~(DOMAIN stateNodes \subseteq DOMAIN stateNodes')
    \/ ~(DOMAIN tableNodes \subseteq DOMAIN tableNodes')

\* C3: what a reader gets for a partition at a recorded block (the root
\* resolved for it and the content read through it) is the same before and
\* after every step of the pipeline on a later block, whichever partition that
\* step writes; only pruning can take the state away, and nothing changes it.
C3_PartitionIsolation ==
    [][\/ UNCHANGED <<registryVars, rootIndex, stateNodes, tableNodes>>  \* a call, not a write
       \/ \A h \in DOMAIN rootIndex, psi \in AllPSIs :
              ReadAt(h, psi).ok
                  => \/ ReadAt(h, psi)' = ReadAt(h, psi)
                     \/ PruneStep /\ ~ReadAt(h, psi)'.ok]_vars

C3_Witness ==
    /\ strategy = "Multiple"
    /\ BlockHash(2) \in DOMAIN rootIndex
    /\ ReadAt(BlockHash(1), "B").ok /\ ReadAt(BlockHash(1), "B").val = 1
    /\ ReadAt(BlockHash(1), "A").ok /\ ReadAt(BlockHash(1), "A").val = 1
    /\ ReadAt(BlockHash(2), "A").ok /\ ReadAt(BlockHash(2), "A").val = 0
    /\ ReadAt(BlockHash(2), "B").val = 1

ReadOnlyOps ==
    {"ResolveForManagedParty", "ResolveForUserContext", "PSIs", "NotIncludeAny",
     "CheckAt", "TrieDB"}

\* C13: no call of ResolveForManagedParty, ResolveForUserContext, PSIs,
\* NotIncludeAny, CheckAt or TrieDB changes the metadata registry (either
\* lookup table) or the block-anchored root index.
C13_CallsWriteNothing ==
    [][ret'.op \in ReadOnlyOps
           => UNCHANGED <<strategy, residentGroupByKey, privacyGroupById, rootIndex>>]_vars

\* a health check failed on a recorded block whose roots were pruned, in a
\* manager with a registry of two groups
C13_Witness ==
    /\ strategy = "Multiple" /\ IsCall("CheckAt")
    /\ ret.hash \in DOMAIN rootIndex /\ ~ret.ok
    /\ DOMAIN privacyGroupById = {"A", "B"}

\* C14: in the Default strategy PSIs returns the sequence of exactly one
\* identifier, the default one, whatever roots have been recorded.
C14_DefaultPSIsSingleton ==
    (strategy = "Default" /\ IsCall("PSIs"))
        => ret.psis = <<DefaultPrivateStateIdentifier>>

C14_Witness ==
    /\ strategy = "Default" /\ IsCall("PSIs")
    /\ DOMAIN rootIndex # {} /\ Len(ret.psis) = 1

\* C6: CheckAt(root) succeeds if and only if the trie at root can still be
\* opened; in particular it fails for a recorded root that pruning has removed.
C6_CheckAtIffOpenable ==
    (IsCall("CheckAt") /\ ret.hash \in RecordedRoots)
        => (ret.ok <=> CanOpen(ret.hash))

----------------------------------------------------------------------------
(* Claims about the proposer policy, checked under SpecPolicy *)

\* the positions at which a call is about to read or to write p.registry
RegistryReads == {"reg_read", "use_range"}
RegistryWrites == {"reg_write", "clear_write"}

\* C15: no call reads or writes the registry of a ProposerPolicy while
\* another call is writing it, and every read and write of the registry is
\* made by the goroutine that holds registryMU.
C15_RegistryAccessLocked ==
    /\ \A t \in Threads :
           callers[t].pc \in RegistryReads \cup RegistryWrites
               => policy.registryMU = t
    /\ \A t, u \in Threads :
           (t # u /\ callers[u].pc \in RegistryWrites)
               => callers[t].pc \notin RegistryReads \cup RegistryWrites

\* the positions between Lock and the assignment to p.registry
BeforeWrite == {"reg_read", "reg_write", "clear_write"}

\* C19: no registration is lost. Whenever no call is between its Lock and its
\* assignment, the registry holds exactly the sets registered since the last
\* ClearRegistry took the lock, each once, in the order their calls acquired
\* the lock; so it is empty when a ClearRegistry completes with no later
\* registration.
C19_NoRegistrationLost ==
    (\A t \in Threads : callers[t].pc \notin BeforeWrite)
        => /\ policy.registry = lockOrder
           /\ \A i, j \in DOMAIN policy.registry :
                  policy.registry[i] = policy.registry[j] => i = j

\* both goroutines have returned from registrations that acquired the lock in
\* the order opposite to the order of the sets
C19_Witness ==
    /\ \A t \in Threads : callers[t].pc = "idle"
    /\ policy.registryMU = NoThread
    /\ policy.registry = <<2, 1>>

----------------------------------------------------------------------------
(* Claims about the fork block, checked under SpecConfig *)

\* C20: IsQBFTConsensusAt(n) is true exactly when the fork block is defined
\* and is 0 or at most n; QBFTBlockNumber returns -1 when the fork block is
\* undefined and the fork block's value otherwise.
C20_ForkBlock ==
    /\ answer.op = "IsQBFTConsensusAt"
           => (answer.flag <=>
                   /\ config.defined
                   /\ \/ config.TestQBFTBlock = 0
                      \/ answer.blockNumber >= config.TestQBFTBlock)
    /\ answer.op = "QBFTBlockNumber"
           => answer.number = IF config.defined THEN config.TestQBFTBlock ELSE -1

----------------------------------------------------------------------------
(* Claims about the watcher, checked under SpecWatcher and SpecWatcherFair *)

LastTaken == IF watcher.taken = <<>> THEN ErrTaken ELSE watcher.taken[Len(watcher.taken)]
StopAvailable == watcher.stop
Returned == watcher.pc = "returned"

\* the goroutine has returned exactly if the last case it took is the stop
\* event (an error never ends it), and it has unsubscribed from the stop event
\* once when it has returned and not at all before
C17_ReturnsOnlyOnStop ==
    /\ Returned <=> LastTaken = StopTaken
    /\ watcher.unsubscribed = IF Returned THEN 1 ELSE 0
    /\ watcher.pc \in {"go", "select", "callback"} => watcher.returned = "nil"

LogsOf(s) == SelectSeq(s, LAMBDA x : x > 0)

\* C18: after a successful createSub the logs passed to the callback are the
\* logs taken from incomingLogs, each once and in order; at most one callback
\* runs at a time; nothing is taken after the stop event; and after a failed
\* SubscribeToLogs createSub has returned the error, no goroutine exists and
\* the callback is never called.
C18_CallbackPerLog ==
    /\ watcher.handled = LogsOf(watcher.taken)
    /\ watcher.handled = [i \in 1..Len(watcher.handled) |-> i]
    /\ watcher.running = IF watcher.pc = "callback" THEN 1 ELSE 0
    /\ \A i \in DOMAIN watcher.taken :
           watcher.taken[i] = StopTaken => i = Len(watcher.taken)
    /\ watcher.returned = "err"
           => watcher.pc = "failed" /\ watcher.taken = <<>> /\ watcher.handled = <<>>
    /\ watcher.pc = "failed" => watcher.returned = "err"

C18_Witness ==
    /\ Returned /\ watcher.returned = "nil"
    /\ watcher.handled = <<1, 2>>
    /\ watcher.running = 0

====
